---- MODULE Spec2Model ----
(***************************************************************************)
(* Collection lifecycle and incremental indexing of CiteCare               *)
(* (src/src/vectorstore.py, src/src/utils/checksums.py and the delete /    *)
(* create handlers of src/src/api/server.py).                              *)
(*                                                                         *)
(* The persisted storage root CHROMA_PERSIST_DIR is the variable disk: one *)
(* storage subtree per (tenant, collection).  A subtree holds the Chroma   *)
(* index (a bag of chunks: Chroma gives every added document a fresh id,   *)
(* so the same chunk added twice is stored twice) and the .meta.json       *)
(* record.  The record is the flat JSON object the code writes: reserved   *)
(* keys and relative file paths side by side in one dictionary.            *)
(***************************************************************************)
EXTENDS Integers, FiniteSets, Sequences, Bags, TLC

----------------------------------------------------------------------------
(* Bounds of the model *)

\* largest version a call may persist
MaxVersion == 3
\* largest number of chunks an index may hold
MaxChunks == 3
\* last instant of the clock
MaxTime == 1

----------------------------------------------------------------------------
(* Universe of inputs *)

Tenants == {"public", "acme"}
Names == {"docs"}
\* a name the naming rules refuse, and every name a caller may pass
ShortNames == {"ab"}
AllNames == Names \cup ShortNames
Paths == {"a.txt", "b.txt", "c.txt"}
\* the contents a file may take: a.txt is the file that gets modified
ContentsOf(p) == IF p = "a.txt" THEN {1, 2} ELSE {1}
Contents == UNION {ContentsOf(p) : p \in Paths}
\* the file written, with one content, when several tenants are at work
TenantPaths == {"a.txt"}
\* a file named like a key of the record, and the name of the record itself
ReservedPaths == {"owner"}
MetaFileName == ".meta.json"
\* every relative path a documents directory may hold
AllPaths == Paths \cup ReservedPaths \cup {MetaFileName}
TenantContents == {1}

\* a chunk is identified by its source file and the content it was cut from
Chunks == Paths \X Contents
Source(doc) == doc[1]

\* default of the keyword argument tenant (vectorstore.py)
DefaultTenant == "public"

ReservedKeys ==
  {"collection", "tenant", "retention_days", "owner", "version",
   "updated_at", "created_at"}

----------------------------------------------------------------------------
(* JSON values and dictionaries *)

None == <<"null", 0>>
JInt(i) == <<"int", i>>
JStr(s) == <<"str", s>>

\* datetime.isoformat(): the text of an instant
IsoFormat(t) == <<"iso", t>>

\* hexdigest(): the text of a digest, distinct for distinct contents
HexDigest == [c \in -1..200 |-> "sha256:" \o ToString(c)]

\* file_sha256: the digest of a file's content, a string like any other
file_sha256(content) == JStr(HexDigest[content])

EmptyDict == [k \in {} |-> None]

\* values the callers pass for owner and retention_days
OwnerChoices == {None}
RetentionChoices == {30}

\* dict.get(key) and dict.get(key, default)
Get(d, k) == IF k \in DOMAIN d THEN d[k] ELSE None
GetOr(d, k, default) == IF k \in DOMAIN d THEN d[k] ELSE default

\* the content of .meta.json: no file, a text json.loads rejects, or an object
NoFile == [kind |-> "nofile", dict |-> EmptyDict]
Corrupt == [kind |-> "corrupt", dict |-> EmptyDict]
JsonFile(d) == [kind |-> "json", dict |-> d]
\* a .meta.json that cannot be read: read_text raises an OSError
Unreadable == [kind |-> "unreadable", dict |-> EmptyDict]

\* a storage subtree <root>/<tenant>/<collection>/
NoDir == [exists |-> FALSE, sqlite |-> FALSE, index |-> EmptyBag, meta |-> NoFile]
EmptyDirectory == [exists |-> TRUE, sqlite |-> FALSE, index |-> EmptyBag, meta |-> NoFile]

Ids == Tenants \X AllNames
\* the collections whose documents directories are written
NamedIds == Tenants \X Names

VARIABLES
  files,   \* the documents directory of each collection: path -> content id,
           \* 0 when the file is absent
  disk,    \* the storage root: <<tenant, collection>> -> storage subtree
  now,     \* datetime.utcnow()
  last,    \* the last event at the storage root: the call of the Lifecycle
           \* Manager (who called what, and what it returned) or damage
  calls    \* the requests in flight: for each, where it is in
           \* build_or_update_collection_from_dir and its local variables

vars == <<files, disk, now, last, calls>>

----------------------------------------------------------------------------
(* Paths and metadata *)

get_collection_path(collection_name, tenant) == <<tenant, collection_name>>

_load_meta(dir) ==
  IF dir.exists /\ dir.meta.kind = "json" THEN dir.meta.dict ELSE EmptyDict

\* the larger of two version entries
LaterVersion(v, w) == IF v[1] = "int" /\ w[1] = "int" /\ v[2] > w[2] THEN v ELSE w

\* _save_meta merging into the record on disk: the entries the new record
\* lacks are kept, and so is a version higher than the new one
_save_meta_merge(dir, meta) ==
  LET old == IF dir.exists /\ dir.meta.kind = "json" THEN dir.meta.dict
             ELSE EmptyDict
  IN  [dir EXCEPT !.exists = TRUE,
                  !.meta = [kind |-> "json",
                            dict |-> [k \in DOMAIN old \cup DOMAIN meta |->
                                        IF k \notin DOMAIN meta THEN old[k]
                                        ELSE IF k = "version" /\ k \in DOMAIN old
                                        THEN LaterVersion(old[k], meta[k])
                                        ELSE meta[k]]]]

\* _save_meta: mkdir(parents, exist_ok) and a total overwrite of the record
_save_meta(dir, meta) ==
  [dir EXCEPT !.exists = TRUE, !.meta = JsonFile(meta)]

\* compute_dir_checksums: every regular file of the directory and its digest
compute_dir_checksums(fs) ==
  [p \in {q \in AllPaths : fs[q] # 0} |-> file_sha256(fs[p])]

\* _load_meta catches json.JSONDecodeError alone: an error of read_text leaves it
load_meta_raises(dir) == dir.exists /\ dir.meta.kind = "unreadable"

\* the content id of a file that path.open refuses to open
NoAccess == -1

\* compute_dir_checksums passing over a file it cannot open
checksums_skip(fs) == FALSE

\* compute_dir_checksums raises when file_sha256 cannot open one of the files
checksums_raise(fs) == \E p \in AllPaths : fs[p] = NoAccess

\* build_or_update_collection_from_dir raises before it reaches the index:
\* reading the prior record (incremental only) or computing the fingerprints
build_raises_early(dir, fs, incremental) ==
  \/ incremental /\ load_meta_raises(dir)
  \/ checksums_raise(fs)

----------------------------------------------------------------------------
(* The index backend *)

\* Chroma.from_documents on a fresh directory: one stored entry per document
from_documents(documents) == SetToBag(documents)

\* add_documents replacing the entries of the files it is given chunks of
add_documents_replacing(index, documents) ==
  LET kept == {d \in BagToSet(index) :
                 \A n \in documents : Source(n) # Source(d)}
  IN  [d \in kept |-> index[d]] (+) SetToBag(documents)

\* Chroma.add_documents: appends, an entry is never replaced
add_documents(index, documents) == index (+) SetToBag(documents)

----------------------------------------------------------------------------
(* Lifecycle Manager *)

\* the record create_collection writes
CreateMeta(collection_name, tenant, retention_days, owner, version, t) ==
  [k \in ReservedKeys |->
     CASE k = "collection" -> JStr(collection_name)
       [] k = "tenant" -> JStr(tenant)
       [] k = "retention_days" -> JInt(retention_days)
       [] k = "owner" -> owner
       [] k = "version" -> JInt(version)
       [] k = "created_at" -> IsoFormat(t)
       [] k = "updated_at" -> IsoFormat(t)]

\* create_collection writing the record before the index is built
create_collection_meta_first(collection_name, documents, tenant, retention_days, owner, version, t, embedOk) ==
  _save_meta([exists |-> TRUE, sqlite |-> embedOk,
              index |-> IF embedOk THEN from_documents(documents) ELSE EmptyBag,
              meta |-> NoFile],
             CreateMeta(collection_name, tenant, retention_days, owner, version, t))

\* create_collection: remove what exists, make the directory, build the index,
\* then write the record; a failing index build leaves the empty directory
create_collection(collection_name, documents, tenant, retention_days, owner, version, t, embedOk) ==
  IF embedOk
  THEN _save_meta([exists |-> TRUE, sqlite |-> TRUE,
                   index |-> from_documents(documents), meta |-> NoFile],
                  CreateMeta(collection_name, tenant, retention_days, owner,
                             version, t))
  ELSE EmptyDirectory

\* load_collection returns None when the directory is missing
load_collection_found(dir) == dir.exists

\* load_collection otherwise opens the directory with Chroma, which creates
\* the database file of an empty collection when there is none
load_collection_open(dir) ==
  IF dir.exists THEN [dir EXCEPT !.sqlite = TRUE] ELSE dir

\* changed_files with the comparison lost: every current file counts as changed
changed_files_all(previous_meta, current_meta) == DOMAIN current_meta

\* changed_files counting the files of the prior record that are gone as well
changed_files_with_removed(previous_meta, current_meta) ==
  {rel \in DOMAIN current_meta : Get(previous_meta, rel) # current_meta[rel]}
    \cup ((DOMAIN previous_meta \ ReservedKeys) \ DOMAIN current_meta)

\* changed_files counting the new files alone: a modified file is passed over
changed_files_new_only(previous_meta, current_meta) ==
  {rel \in DOMAIN current_meta : rel \notin DOMAIN previous_meta}

\* changed_files of build_or_update_collection_from_dir
changed_files(previous_meta, current_meta) ==
  {rel \in DOMAIN current_meta : Get(previous_meta, rel) # current_meta[rel]}

\* docs_to_add with the filter lost: every supplied chunk once a file changed
docs_to_add_unfiltered(documents, changed) ==
  IF changed # {} THEN documents ELSE {}

\* docs_to_add of build_or_update_collection_from_dir
docs_to_add(documents, changed) ==
  {doc \in documents : Source(doc) \in changed}

\* previous_version of build_or_update_collection_from_dir
previous_version(previous_meta) == GetOr(previous_meta, "version", JInt(1))[2]

\* the version build_or_update_collection_from_dir persists
saved_version(previous_meta, changed) ==
  IF changed # {} \/ previous_meta = EmptyDict
  THEN previous_version(previous_meta) + 1
  ELSE previous_version(previous_meta)

\* meta_to_save merging into the prior record instead of replacing it
meta_to_save_merge(previous_meta, current_meta, collection_name, tenant, retention_days, owner, t) ==
  [k \in DOMAIN previous_meta \cup DOMAIN current_meta \cup ReservedKeys |->
     CASE k = "collection" -> JStr(collection_name)
       [] k = "tenant" -> JStr(tenant)
       [] k = "retention_days" -> JInt(retention_days)
       [] k = "owner" -> owner
       [] k = "version" ->
            JInt(saved_version(previous_meta,
                               changed_files(previous_meta, current_meta)))
       [] k = "updated_at" -> IsoFormat(t)
       [] k = "created_at" -> GetOr(previous_meta, "created_at", IsoFormat(t))
       [] k \in DOMAIN current_meta -> current_meta[k]
       [] OTHER -> previous_meta[k]]

\* meta_to_save keeping the owner of the prior record when none is passed
meta_to_save_keep_owner(previous_meta, current_meta, collection_name, tenant, retention_days, owner, t) ==
  [k \in DOMAIN current_meta \cup ReservedKeys |->
     CASE k = "collection" -> JStr(collection_name)
       [] k = "tenant" -> JStr(tenant)
       [] k = "retention_days" -> JInt(retention_days)
       [] k = "owner" -> IF owner = None THEN Get(previous_meta, "owner") ELSE owner
       [] k = "version" ->
            JInt(saved_version(previous_meta,
                               changed_files(previous_meta, current_meta)))
       [] k = "updated_at" -> IsoFormat(t)
       [] k = "created_at" -> GetOr(previous_meta, "created_at", IsoFormat(t))
       [] OTHER -> current_meta[k]]

\* meta_to_save with the fingerprints written over the reserved keys
meta_to_save_files_last(previous_meta, current_meta, collection_name, tenant, retention_days, owner, t) ==
  [k \in DOMAIN current_meta \cup ReservedKeys |->
     CASE k \in DOMAIN current_meta -> current_meta[k]
       [] k = "collection" -> JStr(collection_name)
       [] k = "tenant" -> JStr(tenant)
       [] k = "retention_days" -> JInt(retention_days)
       [] k = "owner" -> owner
       [] k = "version" ->
            JInt(saved_version(previous_meta,
                               changed_files(previous_meta, current_meta)))
       [] k = "updated_at" -> IsoFormat(t)
       [] k = "created_at" -> GetOr(previous_meta, "created_at", IsoFormat(t))]

\* meta_to_save: the fingerprints, then the reserved keys over them
meta_to_save(previous_meta, current_meta, collection_name, tenant, retention_days, owner, t) ==
  [k \in DOMAIN current_meta \cup ReservedKeys |->
     CASE k = "collection" -> JStr(collection_name)
       [] k = "tenant" -> JStr(tenant)
       [] k = "retention_days" -> JInt(retention_days)
       [] k = "owner" -> owner
       [] k = "version" ->
            JInt(saved_version(previous_meta,
                               changed_files(previous_meta, current_meta)))
       [] k = "updated_at" -> IsoFormat(t)
       [] k = "created_at" -> GetOr(previous_meta, "created_at", IsoFormat(t))
       [] OTHER -> current_meta[k]]

\* whether build_or_update_collection_from_dir calls the index backend to embed:
\* a full rebuild does, an incremental update does when docs_to_add is not empty
build_embeds(dir, documents, incremental, previous_meta, current_meta) ==
  \/ ~incremental
  \/ ~dir.exists
  \/ docs_to_add(documents, changed_files(previous_meta, current_meta)) # {}

\* the index step of build_or_update_collection_from_dir: full rebuild or
\* incremental append; the result is the storage subtree before the final save
build_index(dir, collection_name, documents, incremental, tenant, retention_days, owner, previous_meta, current_meta, t, embedOk) ==
  IF ~incremental \/ ~dir.exists
  THEN create_collection(collection_name, documents, tenant, retention_days,
                         owner,
                         IF previous_meta # EmptyDict
                         THEN previous_version(previous_meta) + 1 ELSE 1,
                         t, embedOk)
  ELSE IF ~load_collection_found(dir)
  THEN create_collection(collection_name, documents, tenant, retention_days,
                         owner, previous_version(previous_meta) + 1, t, embedOk)
  ELSE LET opened == load_collection_open(dir)
           adds == docs_to_add(documents,
                               changed_files(previous_meta, current_meta))
       IN  IF adds # {} /\ embedOk
           THEN [opened EXCEPT !.index = add_documents(@, adds)]
           ELSE opened

\* whether the index step raised: the backend fails only when it is called
build_failed(dir, documents, incremental, previous_meta, current_meta, embedOk) ==
  /\ ~embedOk
  /\ build_embeds(dir, documents, incremental, previous_meta, current_meta)

build_or_update_collection_from_dir(dir, collection_name, fs, documents, incremental, tenant, retention_days, owner, t, embedOk) ==
  LET previous_meta == IF incremental THEN _load_meta(dir) ELSE EmptyDict
      current_meta == compute_dir_checksums(fs)
      built == build_index(dir, collection_name, documents, incremental, tenant,
                           retention_days, owner, previous_meta, current_meta,
                           t, embedOk)
  IN  IF build_failed(dir, documents, incremental, previous_meta, current_meta,
                      embedOk)
      THEN built
      ELSE _save_meta(built,
                      meta_to_save(previous_meta, current_meta, collection_name,
                                   tenant, retention_days, owner, t))

\* delete_collection(collection_name): the path is computed without a tenant
delete_collection_path(collection_name) ==
  get_collection_path(collection_name, DefaultTenant)

----------------------------------------------------------------------------
(* Observations *)

\* the persisted version of a storage subtree, 0 when no record carries one
VersionOf(dir) ==
  IF "version" \in DOMAIN _load_meta(dir) THEN _load_meta(dir)["version"][2] ELSE 0

\* the file-fingerprint entries of a record: its keys that are not reserved
FingerprintsOf(dir) ==
  [k \in DOMAIN _load_meta(dir) \ ReservedKeys |-> _load_meta(dir)[k]]

WithinBounds(dir) ==
  /\ BagCardinality(dir.index) <= MaxChunks
  /\ VersionOf(dir) <= MaxVersion

\* the chunks a loader cuts from the files of a directory; load_directory
\* reports a file it cannot load and goes on
load_and_split(fs) ==
  {<<p, fs[p]>> : p \in {q \in Paths : fs[q] # 0 /\ fs[q] # NoAccess}}

\* embedded: whether the call asked the index backend to embed chunks
NoCall ==
  [op |-> "none", tenant |-> DefaultTenant, name |-> "docs",
   incremental |-> FALSE, embedded |-> FALSE, ret |-> "None", count |-> 0,
   listed |-> {}, at |-> 0, deleted |-> <<>>, failed |-> {}, retention |-> 0]

Call(op, tenant, name, incremental, embedded, ret) ==
  [op |-> op, tenant |-> tenant, name |-> name, incremental |-> incremental,
   embedded |-> embedded, ret |-> ret, count |-> 0, listed |-> {}, at |-> 0,
   deleted |-> <<>>, failed |-> {}, retention |-> 0]

\* the collection of the default tenant, and its documents directory
TheFile == <<DefaultTenant, "docs">>

\* the requests that can be in flight at once
Slots == {1, 2}

\* no request in the slot
Idle ==
  [pc |-> "idle", id |-> <<DefaultTenant, "docs">>, incremental |-> FALSE,
   documents |-> {}, previous_meta |-> EmptyDict, current_meta |-> EmptyDict,
   version |-> 0, embedded |-> FALSE, stale |-> FALSE]

\* rmtree of a storage subtree: a store a request has opened on it is left
\* with files that are no longer in the directory
Staled(inflight, id) ==
  [s \in Slots |->
     IF inflight[s].pc = "opened" /\ inflight[s].id = id
     THEN [inflight[s] EXCEPT !.stale = TRUE] ELSE inflight[s]]

----------------------------------------------------------------------------
(* Read operations *)

\* list_collections(tenant): the directories of the tenant that hold an index
list_collections(store, tenant) ==
  {n \in AllNames : store[<<tenant, n>>].exists /\ store[<<tenant, n>>].sqlite}

\* vectorstore._collection.count()
count(dir) == BagCardinality(dir.index)

\* the files of get_collection_stats
stats_files(dir) == {Source(doc) : doc \in BagToSet(dir.index)}

----------------------------------------------------------------------------
(* Actions *)

Init ==
  /\ files = [id \in Ids |-> [p \in AllPaths |-> 0]]
  /\ disk = [id \in Ids |-> NoDir]
  /\ now = 0
  /\ last = NoCall
  /\ calls = [s \in Slots |-> Idle]

\* a file of a documents directory is written, or written again
WriteFile(id, p, c) ==
  /\ files[id][p] # c
  /\ files' = [files EXCEPT ![id][p] = c]
  /\ UNCHANGED <<disk, now, last, calls>>

\* a file of a documents directory is removed
RemoveFile(id, p) ==
  /\ files[id][p] # 0
  /\ files' = [files EXCEPT ![id][p] = 0]
  /\ UNCHANGED <<disk, now, last, calls>>

\* time passes
Tick ==
  /\ now < MaxTime
  /\ now' = now + 1
  /\ UNCHANGED <<files, disk, last, calls>>

\* the record of a collection is damaged outside the program
CorruptMeta(id) ==
  /\ disk[id].exists
  /\ disk[id].meta.kind = "json"
  /\ disk' = [disk EXCEPT ![id].meta = Corrupt]
  /\ last' = Call("damage", id[1], id[2], FALSE, FALSE, "None")
  /\ UNCHANGED <<files, now, calls>>

CreateCollection(tenant, name, documents, retention_days, owner, embedOk) ==
  LET id == get_collection_path(name, tenant)
      dir == create_collection(name, documents, tenant, retention_days, owner,
                               1, now, embedOk)
  IN  /\ WithinBounds(dir)
      /\ disk' = [disk EXCEPT ![id] = dir]
      /\ last' = Call("create", tenant, name, FALSE, TRUE,
                      IF embedOk THEN "Chroma" ELSE "raised")
      /\ UNCHANGED <<files, now, calls>>

\* embedOk: whether the index backend, if the call reaches it, succeeds
BuildOrUpdate(tenant, name, documents, incremental, retention_days, owner, embedOk) ==
  LET id == get_collection_path(name, tenant)
      previous_meta == IF incremental THEN _load_meta(disk[id]) ELSE EmptyDict
      current_meta == compute_dir_checksums(files[id])
      failed == build_failed(disk[id], documents, incremental, previous_meta,
                             current_meta, embedOk)
      dir == build_or_update_collection_from_dir(
               disk[id], name, files[id], documents, incremental, tenant,
               retention_days, owner, now, embedOk)
  IN  IF build_raises_early(disk[id], files[id], incremental)
      THEN /\ embedOk
           /\ disk' = disk
           /\ last' = Call("build_or_update", tenant, name, incremental, FALSE,
                           "raised")
           /\ UNCHANGED <<files, now, calls>>
      ELSE /\ embedOk \/ build_embeds(disk[id], documents, incremental,
                                       previous_meta, current_meta)
           /\ WithinBounds(dir)
           /\ disk' = [disk EXCEPT ![id] = dir]
           /\ last' = Call("build_or_update", tenant, name, incremental,
                           build_embeds(disk[id], documents, incremental,
                                        previous_meta, current_meta),
                           IF failed THEN "raised" ELSE "Chroma")
           /\ UNCHANGED <<files, now, calls>>

\* DELETE /collections/{name} sent by a tenant: delete_collection_api, which
\* calls delete_collection(name)
DeleteCollection(tenant, name) ==
  LET id == delete_collection_path(name)
  IN  /\ disk' = [disk EXCEPT ![id] = NoDir]
      /\ last' = Call("delete", tenant, name, FALSE, FALSE,
                      IF disk[id].exists THEN "True" ELSE "False")
      /\ calls' = Staled(calls, id)
      /\ UNCHANGED <<files, now>>

LoadCollection(tenant, name) ==
  LET id == get_collection_path(name, tenant)
  IN  /\ disk' = [disk EXCEPT ![id] = load_collection_open(@)]
      /\ last' = [Call("load", tenant, name, FALSE, FALSE,
                       IF load_collection_found(disk[id]) THEN "Chroma" ELSE "None")
                  EXCEPT !.count = count(disk[id])]
      /\ UNCHANGED <<files, now, calls>>

GetCollectionStats(tenant, name) ==
  LET id == get_collection_path(name, tenant)
  IN  /\ disk' = [disk EXCEPT ![id] = load_collection_open(@)]
      /\ last' = [Call("stats", tenant, name, FALSE, FALSE,
                       IF load_collection_found(disk[id]) THEN "stats" ELSE "empty")
                  EXCEPT !.count = count(disk[id]),
                         !.listed = stats_files(disk[id])]
      /\ UNCHANGED <<files, now, calls>>

ListCollections(tenant) ==
  /\ last' = [Call("list", tenant, "docs", FALSE, FALSE, "list")
              EXCEPT !.listed = list_collections(disk, tenant)]
  /\ UNCHANGED <<files, disk, now, calls>>

\* the calls that name no tenant, as the application makes them, at one
\* instant: any chunks cut from the files of the directory may be supplied
Next ==
  \/ \E n \in Names, p \in Paths : \E c \in ContentsOf(p) :
       WriteFile(<<DefaultTenant, n>>, p, c)
  \/ \E n \in Names, p \in Paths : RemoveFile(<<DefaultTenant, n>>, p)
  \/ \E n \in Names : CorruptMeta(<<DefaultTenant, n>>)
  \/ \E n \in Names : \E docs \in SUBSET load_and_split(files[<<DefaultTenant, n>>]) :
       \E r \in RetentionChoices, o \in OwnerChoices, e \in BOOLEAN :
         CreateCollection(DefaultTenant, n, docs, r, o, e)
  \/ \E n \in Names : \E docs \in SUBSET load_and_split(files[<<DefaultTenant, n>>]) :
       \E inc \in BOOLEAN, r \in RetentionChoices, o \in OwnerChoices,
          e \in BOOLEAN :
         BuildOrUpdate(DefaultTenant, n, docs, inc, r, o, e)
  \/ \E n \in Names : DeleteCollection(DefaultTenant, n)

Spec == Init /\ [][Next]_vars

\* the calls of several tenants while time passes: each tenant builds its
\* collections from all the chunks of its own documents directory
NextTenants ==
  \/ \E id \in NamedIds, p \in TenantPaths, c \in TenantContents :
       WriteFile(id, p, c)
  \/ \E id \in NamedIds, p \in TenantPaths : RemoveFile(id, p)
  \/ Tick
  \/ \E t \in Tenants, n \in Names, r \in RetentionChoices, o \in OwnerChoices,
        e \in BOOLEAN :
       CreateCollection(t, n, load_and_split(files[<<t, n>>]), r, o, e)
  \/ \E t \in Tenants, n \in Names, inc \in BOOLEAN, r \in RetentionChoices,
        o \in OwnerChoices, e \in BOOLEAN :
       BuildOrUpdate(t, n, load_and_split(files[<<t, n>>]), inc, r, o, e)
  \/ \E t \in Tenants, n \in Names : DeleteCollection(t, n)
  \/ \E t \in Tenants, n \in Names : LoadCollection(t, n)
  \/ \E t \in Tenants, n \in Names : GetCollectionStats(t, n)
  \/ \E t \in Tenants : ListCollections(t)

SpecTenants == Init /\ [][NextTenants]_vars

----------------------------------------------------------------------------
(* Retention purge sweep *)

\* the clock counts half days: timedelta.days drops the half
TicksPerDay == 2

\* the default of retention_days, imported from src.config
DEFAULT_RETENTION_DAYS == 30

\* the instants a purge is asked for: purge_expired_collections(now)
PurgeTimes == {0, 60, 61, 62, 63}

\* what shutil.rmtree does to a directory: removes it, raises and leaves it,
\* or raises after it removed the record
RmOutcomes == {"removed", "raised", "raised_partial"}

\* (now - created_dt).days
age_days(t, created_at) == (t - created_at[2]) \div TicksPerDay

\* the mutants of the sweep's test: the limit itself counts as expired; a
\* record without created_at is taken to be as old as the clock
expired_at_limit(meta, t) ==
  LET retention == GetOr(meta, "retention_days", JInt(DEFAULT_RETENTION_DAYS))
      created_at == Get(meta, "created_at")
  IN  /\ created_at # None
      /\ age_days(t, created_at) >= retention[2]

expired_guessing(meta, t) ==
  LET retention == GetOr(meta, "retention_days", JInt(DEFAULT_RETENTION_DAYS))
      created_at == GetOr(meta, "created_at", IsoFormat(0))
  IN  age_days(t, created_at) > retention[2]

\* the test of the sweep on a record it could load
expired(meta, t) ==
  LET retention == GetOr(meta, "retention_days", JInt(DEFAULT_RETENTION_DAYS))
      created_at == Get(meta, "created_at")
  IN  /\ created_at # None
      /\ age_days(t, created_at) > retention[2]

\* the directories iterdir yields, tenant by tenant, in an order of its own
SweepOrders ==
  {o \in [1..Cardinality(Ids) -> Ids] :
     /\ \A i, j \in DOMAIN o : i # j => o[i] # o[j]
     /\ \A i, j, k \in DOMAIN o :
          (i < j /\ j < k /\ o[i][1] = o[k][1]) => o[j][1] = o[i][1]}

\* the loop of purge_expired_collections over the directories left in order:
\* the storage root, the list deleted, the directories rmtree failed on, and
\* whether an exception left the function
RECURSIVE sweep(_, _, _, _, _, _)
sweep(store, order, t, rm, deleted, failed) ==
  IF order = <<>>
  THEN [disk |-> store, deleted |-> deleted, failed |-> failed, raised |-> FALSE]
  ELSE LET id == Head(order)
           dir == store[id]
       IN  IF ~dir.exists
           THEN sweep(store, Tail(order), t, rm, deleted, failed)
           ELSE IF load_meta_raises(dir)
           THEN [disk |-> store, deleted |-> deleted, failed |-> failed,
                 raised |-> TRUE]
           ELSE IF ~expired(_load_meta(dir), t)
           THEN sweep(store, Tail(order), t, rm, deleted, failed)
           ELSE IF rm[id] = "removed"
           THEN sweep([store EXCEPT ![id] = NoDir], Tail(order), t, rm,
                      Append(deleted, id), failed)
           ELSE sweep([store EXCEPT ![id] =
                         IF rm[id] = "raised_partial"
                         THEN [dir EXCEPT !.meta = NoFile] ELSE dir],
                      Tail(order), t, rm, deleted, failed \cup {id})

\* the record can no longer be read (its permissions changed)
UnreadableMeta(id) ==
  /\ disk[id].exists
  /\ disk[id].meta.kind = "json"
  /\ disk' = [disk EXCEPT ![id].meta = Unreadable]
  /\ last' = Call("damage", id[1], id[2], FALSE, FALSE, "None")
  /\ UNCHANGED <<files, now, calls>>

\* the record is rewritten outside the program without its created_at
StripCreatedAt(id) ==
  /\ disk[id].exists
  /\ disk[id].meta.kind = "json"
  /\ "created_at" \in DOMAIN disk[id].meta.dict
  /\ disk' = [disk EXCEPT ![id].meta =
                 JsonFile([k \in DOMAIN disk[id].meta.dict \ {"created_at"} |->
                             disk[id].meta.dict[k]])]
  /\ last' = Call("damage", id[1], id[2], FALSE, FALSE, "None")
  /\ UNCHANGED <<files, now, calls>>

\* purge_expired_collections(now = t); rm: what rmtree does to each directory
PurgeExpired(t, order, rm) ==
  LET r == sweep(disk, order, t, rm, <<>>, {})
  IN  /\ disk' = r.disk
      /\ last' = [Call("purge", DefaultTenant, "docs", FALSE, FALSE,
                       IF r.raised THEN "raised" ELSE "list")
                  EXCEPT !.at = t, !.deleted = r.deleted, !.failed = r.failed]
      /\ UNCHANGED <<files, now, calls>>

\* collections are created and rebuilt over empty directories as time passes,
\* records are damaged, and the sweep is run
NextPurge ==
  \/ Tick
  \/ \E t \in Tenants, n \in Names, r \in RetentionChoices, o \in OwnerChoices,
        e \in BOOLEAN :
       CreateCollection(t, n, load_and_split(files[<<t, n>>]), r, o, e)
  \/ \E t \in Tenants, n \in Names, inc \in BOOLEAN, r \in RetentionChoices,
        o \in OwnerChoices, e \in BOOLEAN :
       BuildOrUpdate(t, n, load_and_split(files[<<t, n>>]), inc, r, o, e)
  \/ \E id \in Ids : CorruptMeta(id)
  \/ \E id \in Ids : UnreadableMeta(id)
  \/ \E id \in Ids : StripCreatedAt(id)
  \/ \E t \in PurgeTimes, order \in SweepOrders :
       \E rm \in [{id \in Ids : disk[id].exists} -> RmOutcomes] :
         PurgeExpired(t, order, rm)

SpecPurge == Init /\ [][NextPurge]_vars

----------------------------------------------------------------------------
(* The HTTP API *)

\* the characters of the names
NameChars(name) ==
  CASE name = "docs" -> <<"d", "o", "c", "s">>
    [] name = "ab" -> <<"a", "b">>

Alphanumeric == {"a", "b", "c", "d", "o", "s"}
MinNameLen == 3
MaxNameLen == 512

\* validate_collection_name: the length, then the pattern
\* ^[a-zA-Z0-9][a-zA-Z0-9._-]*[a-zA-Z0-9]$
validate_collection_name(name) ==
  LET s == NameChars(name)
  IN  /\ Len(s) >= MinNameLen
      /\ Len(s) <= MaxNameLen
      /\ Len(s) >= 2
      /\ s[1] \in Alphanumeric
      /\ s[Len(s)] \in Alphanumeric
      /\ \A i \in 2..(Len(s) - 1) : s[i] \in Alphanumeric \cup {".", "_", "-"}

\* coll_dir.exists(): a documents directory is there while it holds a file
coll_dir_exists(fs) == \E p \in AllPaths : fs[p] # 0

\* a file of a documents directory can no longer be opened
MakeUnreadable(id, p) ==
  /\ files[id][p] # 0
  /\ files[id][p] # NoAccess
  /\ files' = [files EXCEPT ![id][p] = NoAccess]
  /\ UNCHANGED <<disk, now, last, calls>>

\* POST /collections: create_collection_api
CreateCollectionApi(tenant, name, incremental, retention_days, embedOk) ==
  LET id == <<tenant, name>>
  IN  IF ~validate_collection_name(name) \/ ~coll_dir_exists(files[id])
      THEN /\ embedOk
           /\ last' = Call("create_api", tenant, name, incremental, FALSE, "400")
           /\ UNCHANGED <<files, disk, now, calls>>
      ELSE BuildOrUpdate(tenant, name, load_and_split(files[id]), incremental,
                         retention_days, None, embedOk)

\* the requests of the tenants, beside the application, which names no tenant
\* and creates collections through create_collection
NextApi ==
  \/ \E id \in NamedIds, p \in TenantPaths, c \in TenantContents :
       WriteFile(id, p, c)
  \/ \E id \in NamedIds, p \in TenantPaths : RemoveFile(id, p)
  \/ \E id \in NamedIds, p \in TenantPaths : MakeUnreadable(id, p)
  \/ \E n \in AllNames, r \in RetentionChoices, o \in OwnerChoices, e \in BOOLEAN :
       CreateCollection(DefaultTenant, n,
                        load_and_split(files[<<DefaultTenant, n>>]), r, o, e)
  \/ \E t \in Tenants, n \in AllNames, inc \in BOOLEAN, r \in RetentionChoices,
        e \in BOOLEAN :
       CreateCollectionApi(t, n, inc, r, e)
  \/ \E t \in Tenants, n \in AllNames : DeleteCollection(t, n)

SpecApi == Init /\ [][NextApi]_vars

----------------------------------------------------------------------------
(* Retention update through the API *)

\* the root the library keeps the collections' storage under
CHROMA_PERSIST_DIR == "chroma_db"

\* the root the server and the application keep the uploaded documents under:
\* a directory of its own, removed apart from the storage when a collection is
\* deleted in the application
COLLECTIONS_DIR == "data/collections"

\* the retention_days the PATCH requests carry
UpdateChoices == {7, 90}

\* the text update_retention writes: the object it read, or an empty one, with
\* retention_days and updated_at set
written_meta(retention_days) == 100 + retention_days

\* PATCH /collections/{name}/retention: 404 unless .meta.json exists under
\* COLLECTIONS_DIR/tenant/name, else that file is rewritten
UpdateRetention(tenant, name, retention_days) ==
  LET id == <<tenant, name>>
      found == IF COLLECTIONS_DIR = CHROMA_PERSIST_DIR
               THEN disk[id].exists /\ disk[id].meta.kind # "nofile"
               ELSE files[id][MetaFileName] # 0
      meta == IF disk[id].meta.kind = "json" THEN disk[id].meta.dict
              ELSE EmptyDict
  IN  /\ last' = [Call("update_retention", tenant, name, FALSE, FALSE,
                        IF found THEN "200" ELSE "404")
                   EXCEPT !.retention = retention_days]
      /\ IF ~found
         THEN UNCHANGED <<files, disk>>
         ELSE IF COLLECTIONS_DIR = CHROMA_PERSIST_DIR
         THEN /\ disk' = [disk EXCEPT ![id].meta =
                            JsonFile([k \in DOMAIN meta
                                            \cup {"retention_days", "updated_at"} |->
                                        CASE k = "retention_days" ->
                                               JInt(retention_days)
                                          [] k = "updated_at" -> IsoFormat(now)
                                          [] OTHER -> meta[k]])]
              /\ files' = files
         ELSE /\ files' = [files EXCEPT ![id][MetaFileName] =
                              written_meta(retention_days)]
              /\ disk' = disk
      /\ UNCHANGED <<now, calls>>

\* collections are built from their documents directories, a file named
\* .meta.json is put among the documents, retention updates come in and the
\* sweep is run
NextRetention ==
  \/ \E p \in TenantPaths \cup {MetaFileName} : WriteFile(TheFile, p, 1)
  \/ \E n \in Names, inc \in BOOLEAN, r \in RetentionChoices,
        o \in OwnerChoices, e \in BOOLEAN :
       BuildOrUpdate(DefaultTenant, n, load_and_split(files[<<DefaultTenant, n>>]),
                     inc, r, o, e)
  \/ \E n \in Names, r \in UpdateChoices : UpdateRetention(DefaultTenant, n, r)
  \/ \E t \in PurgeTimes, order \in SweepOrders :
       \E rm \in [{id \in Ids : disk[id].exists} -> RmOutcomes] :
         PurgeExpired(t, order, rm)

SpecRetention == Init /\ [][NextRetention]_vars

----------------------------------------------------------------------------
(* The record under changing arguments *)

\* the retention_days and the owners the callers pass: no owner, a name, and
\* a string that reads like the digest of a file
RecordRetentions == {7, 30}
RecordOwners == {None, JStr("alice"), JStr(HexDigest[1])}
RecordPaths == {"a.txt"} \cup ReservedPaths

\* the chunks a caller's own loader cuts from every file of a directory
dir_chunks(fs) ==
  {<<p, fs[p]>> : p \in {q \in AllPaths : fs[q] # 0 /\ fs[q] # NoAccess}}

\* calls on one collection as time passes, with every retention_days and owner,
\* over a directory that may hold a file named like a key of the record; the
\* chunks are those of load_and_split or those of the caller's loader
NextRecord ==
  \/ \E p \in RecordPaths : WriteFile(TheFile, p, 1)
  \/ \E p \in RecordPaths : RemoveFile(TheFile, p)
  \/ Tick
  \/ \E docs \in {load_and_split(files[TheFile]), dir_chunks(files[TheFile])} :
       \E inc \in BOOLEAN, r \in RecordRetentions, o \in RecordOwners,
          e \in BOOLEAN :
         BuildOrUpdate(DefaultTenant, "docs", docs, inc, r, o, e)

SpecRecord == Init /\ [][NextRecord]_vars

----------------------------------------------------------------------------
(* Requests in flight *)

\* The handlers of the API run side by side and the Lifecycle Manager takes no
\* lock.  A request moves through build_or_update_collection_from_dir one
\* access to the file system at a time; calls[s].pc is where it stands:
\*   "chunked"  the chunks are cut (server.py:143)
\*   "diffed"   the record and the digests are read (vectorstore.py:225-233)
\*   "rebuild"  create_collection is entered (235-245, or 248-256)
\*   "removed"  the old subtree is removed (55-56)
\*   "made"     the directory is made (57)
\*   "indexed"  the index is built (59-64)
\*   "append"   the incremental branch is taken (235, 246)
\*   "opened"   load_collection has opened the store (247)
\*   "built"    the index step is over, the final save is left (269-279)

InFlightContents == {1, 2}

\* create_collection_api up to load_and_split
Request(s, tenant, name, incremental) ==
  LET id == <<tenant, name>>
  IN  /\ calls[s].pc = "idle"
      /\ IF ~validate_collection_name(name) \/ ~coll_dir_exists(files[id])
         THEN /\ last' = Call("create_api", tenant, name, incremental, FALSE,
                              "400")
              /\ UNCHANGED <<files, disk, now, calls>>
         ELSE /\ calls' = [calls EXCEPT ![s] =
                             [Idle EXCEPT !.pc = "chunked", !.id = id,
                                          !.incremental = incremental,
                                          !.documents =
                                            load_and_split(files[id])]]
              /\ UNCHANGED <<files, disk, now, last>>

\* previous_meta, current_meta (and with them previous_version, changed_files)
ReadRecord(s) ==
  LET c == calls[s]
  IN  /\ c.pc = "chunked"
      /\ IF build_raises_early(disk[c.id], files[c.id], c.incremental)
         THEN /\ calls' = [calls EXCEPT ![s] = Idle]
              /\ last' = Call("build_or_update", c.id[1], c.id[2],
                              c.incremental, FALSE, "raised")
         ELSE /\ calls' = [calls EXCEPT ![s] =
                             [c EXCEPT !.pc = "diffed",
                                       !.previous_meta =
                                         IF c.incremental
                                         THEN _load_meta(disk[c.id])
                                         ELSE EmptyDict,
                                       !.current_meta =
                                         compute_dir_checksums(files[c.id])]]
              /\ last' = last
      /\ UNCHANGED <<files, disk, now>>

\* the test of line 235 and, on the full-rebuild side, the mkdir of line 237
ChooseBranch(s) ==
  LET c == calls[s]
  IN  /\ c.pc = "diffed"
      /\ IF ~c.incremental \/ ~disk[c.id].exists
         THEN /\ disk' = [disk EXCEPT ![c.id].exists = TRUE]
              /\ calls' = [calls EXCEPT ![s] =
                             [c EXCEPT !.pc = "rebuild",
                                       !.version =
                                         IF c.previous_meta # EmptyDict
                                         THEN previous_version(c.previous_meta) + 1
                                         ELSE 1]]
         ELSE /\ disk' = disk
              /\ calls' = [calls EXCEPT ![s] = [c EXCEPT !.pc = "append"]]
      /\ UNCHANGED <<files, now, last>>

\* create_collection: if persist_dir.exists(): shutil.rmtree(persist_dir)
Rmtree(s) ==
  LET c == calls[s]
  IN  /\ c.pc = "rebuild"
      /\ disk' = [disk EXCEPT ![c.id] = NoDir]
      /\ calls' = [Staled(calls, c.id) EXCEPT ![s] = [c EXCEPT !.pc = "removed"]]
      /\ UNCHANGED <<files, now, last>>

\* create_collection: persist_dir.mkdir(parents=True, exist_ok=True)
Mkdir(s) ==
  LET c == calls[s]
  IN  /\ c.pc = "removed"
      /\ disk' = [disk EXCEPT ![c.id].exists = TRUE]
      /\ calls' = [calls EXCEPT ![s] = [c EXCEPT !.pc = "made"]]
      /\ UNCHANGED <<files, now, last>>

\* create_collection: Chroma.from_documents opens the directory as it is at
\* that moment (it makes it when it is gone) and adds the documents to the
\* collection of that name
FromDocuments(s, embedOk) ==
  LET c == calls[s]
      dir == [disk[c.id] EXCEPT !.exists = TRUE, !.sqlite = TRUE,
                                !.index = add_documents(@, c.documents)]
  IN  /\ c.pc = "made"
      /\ IF embedOk
         THEN /\ WithinBounds(dir)
              /\ disk' = [disk EXCEPT ![c.id] = dir]
              /\ calls' = [calls EXCEPT ![s] =
                             [c EXCEPT !.pc = "indexed", !.embedded = TRUE]]
              /\ last' = last
         ELSE /\ disk' = disk
              /\ calls' = [calls EXCEPT ![s] = Idle]
              /\ last' = Call("build_or_update", c.id[1], c.id[2],
                              c.incremental, TRUE, "raised")
      /\ UNCHANGED <<files, now>>

\* create_collection: the record it writes (lines 66-76)
SaveCreateMeta(s, retention_days, owner) ==
  LET c == calls[s]
      dir == _save_meta(disk[c.id],
                        CreateMeta(c.id[2], c.id[1], retention_days, owner,
                                   c.version, now))
  IN  /\ c.pc = "indexed"
      /\ WithinBounds(dir)
      /\ disk' = [disk EXCEPT ![c.id] = dir]
      /\ calls' = [calls EXCEPT ![s] = [c EXCEPT !.pc = "built"]]
      /\ UNCHANGED <<files, now, last>>

\* the incremental branch: load_collection, and create_collection when it
\* finds the directory gone
LoadStore(s) ==
  LET c == calls[s]
  IN  /\ c.pc = "append"
      /\ IF load_collection_found(disk[c.id])
         THEN /\ disk' = [disk EXCEPT ![c.id] = load_collection_open(@)]
              /\ calls' = [calls EXCEPT ![s] = [c EXCEPT !.pc = "opened"]]
         ELSE /\ disk' = disk
              /\ calls' = [calls EXCEPT ![s] =
                             [c EXCEPT !.pc = "rebuild",
                                       !.version =
                                         previous_version(c.previous_meta) + 1]]
      /\ UNCHANGED <<files, now, last>>

\* what add_documents does through a store whose directory was removed after
\* it was opened: the entries go to files that are no longer there, or to the
\* directory as it is now
StaleOutcomes == {"lost", "added"}

\* the incremental branch: docs_to_add and vectorstore.add_documents
AddDocuments(s, embedOk, outcome) ==
  LET c == calls[s]
      adds == docs_to_add(c.documents,
                          changed_files(c.previous_meta, c.current_meta))
      dir == [disk[c.id] EXCEPT !.index = add_documents(@, adds)]
  IN  /\ c.pc = "opened"
      /\ outcome = "lost" => (c.stale /\ adds # {} /\ embedOk)
      /\ IF adds = {}
         THEN /\ embedOk
              /\ disk' = disk
              /\ calls' = [calls EXCEPT ![s] = [c EXCEPT !.pc = "built"]]
              /\ last' = last
         ELSE IF ~embedOk
         THEN /\ disk' = disk
              /\ calls' = [calls EXCEPT ![s] = Idle]
              /\ last' = Call("build_or_update", c.id[1], c.id[2],
                              c.incremental, TRUE, "raised")
         ELSE /\ IF outcome = "lost" \/ ~disk[c.id].exists
                 THEN disk' = disk
                 ELSE WithinBounds(dir) /\ disk' = [disk EXCEPT ![c.id] = dir]
              /\ calls' = [calls EXCEPT ![s] =
                             [c EXCEPT !.pc = "built", !.embedded = TRUE]]
              /\ last' = last
      /\ UNCHANGED <<files, now>>

\* meta_to_save and the final _save_meta (lines 269-279); the call returns
SaveMeta(s, retention_days, owner) ==
  LET c == calls[s]
      dir == _save_meta(disk[c.id],
                        meta_to_save(c.previous_meta, c.current_meta, c.id[2],
                                     c.id[1], retention_days, owner, now))
  IN  /\ c.pc = "built"
      /\ WithinBounds(dir)
      /\ disk' = [disk EXCEPT ![c.id] = dir]
      /\ calls' = [calls EXCEPT ![s] = Idle]
      /\ last' = Call("build_or_update", c.id[1], c.id[2], c.incremental,
                      c.embedded, "Chroma")
      /\ UNCHANGED <<files, now>>

\* the whole index step of a request (lines 235-266) with no other request
\* stepping in between
IndexStep(s, retention_days, owner, embedOk) ==
  LET c == calls[s]
      embeds == build_embeds(disk[c.id], c.documents, c.incremental,
                             c.previous_meta, c.current_meta)
      dir == build_index(disk[c.id], c.id[2], c.documents, c.incremental,
                         c.id[1], retention_days, owner, c.previous_meta,
                         c.current_meta, now, embedOk)
  IN  /\ c.pc = "diffed"
      /\ embedOk \/ embeds
      /\ WithinBounds(dir)
      /\ disk' = [disk EXCEPT ![c.id] = dir]
      /\ IF embedOk
         THEN /\ calls' = [calls EXCEPT ![s] =
                             [c EXCEPT !.pc = "built", !.embedded = embeds]]
              /\ last' = last
         ELSE /\ calls' = [calls EXCEPT ![s] = Idle]
              /\ last' = Call("build_or_update", c.id[1], c.id[2],
                              c.incremental, TRUE, "raised")
      /\ UNCHANGED <<files, now>>

\* a request takes the first slot that is free
FreeSlot(s) == \A s2 \in Slots : s2 < s => calls[s2].pc # "idle"

\* two requests at a time on the collection of the default tenant while its
\* file is written: the record is read, the index step is taken and the record
\* is saved in any order the two requests allow
NextInFlight ==
  \/ \E p \in TenantPaths, c \in InFlightContents : WriteFile(TheFile, p, c)
  \/ \E s \in Slots, n \in Names, inc \in BOOLEAN :
       FreeSlot(s) /\ Request(s, DefaultTenant, n, inc)
  \/ \E s \in Slots : ReadRecord(s)
  \/ \E s \in Slots, r \in RetentionChoices, e \in BOOLEAN :
       IndexStep(s, r, None, e)
  \/ \E s \in Slots, r \in RetentionChoices : SaveMeta(s, r, None)

SpecInFlight == Init /\ [][NextInFlight]_vars

\* one request at a time, one access to the file system after the other, while
\* the file is written and reads and deletes of the collection come in
NextRebuild ==
  \/ \E p \in TenantPaths, c \in InFlightContents : WriteFile(TheFile, p, c)
  \/ \E n \in Names, inc \in BOOLEAN : Request(1, DefaultTenant, n, inc)
  \/ ReadRecord(1)
  \/ ChooseBranch(1)
  \/ Rmtree(1)
  \/ Mkdir(1)
  \/ \E e \in BOOLEAN : FromDocuments(1, e)
  \/ \E r \in RetentionChoices : SaveCreateMeta(1, r, None)
  \/ LoadStore(1)
  \/ \E e \in BOOLEAN, o \in StaleOutcomes : AddDocuments(1, e, o)
  \/ \E r \in RetentionChoices : SaveMeta(1, r, None)
  \/ \E n \in Names : LoadCollection(DefaultTenant, n)
  \/ \E n \in Names : GetCollectionStats(DefaultTenant, n)
  \/ \E n \in Names : DeleteCollection(DefaultTenant, n)

SpecRebuild == Init /\ [][NextRebuild]_vars

----------------------------------------------------------------------------
(* Claims *)

CreatedAtOf(dir) == Get(_load_meta(dir), "created_at")
UpdatedAtOf(dir) == Get(_load_meta(dir), "updated_at")

\* the step is the named call of the tenant on the collection: every action
\* on the storage root writes its name into last, and the steps that leave
\* last alone change the documents directories or the clock
CallStep(op, id) ==
  /\ files' = files
  /\ now' = now
  /\ last'.op = op
  /\ last'.tenant = id[1]
  /\ last'.name = id[2]

\* the step is a build_or_update call on the collection that returned
BuildReturned(id) ==
  /\ CallStep("build_or_update", id)
  /\ last'.ret = "Chroma"

\* the step is a create call on the collection that returned
CreateReturned(id) ==
  /\ CallStep("create", id)
  /\ last'.ret = "Chroma"

\* the arguments of a build_or_update beside the collection and the flag
BuildArgs == (SUBSET Chunks) \X RetentionChoices \X OwnerChoices \X BOOLEAN

\* the record of the collection is the one a build_or_update over the present
\* content of the directory leaves: an index, and the present fingerprints
BuiltFromDirectory(id) ==
  /\ disk[id].exists
  /\ disk[id].sqlite
  /\ disk[id].meta.kind = "json"
  /\ FingerprintsOf(disk[id]) = compute_dir_checksums(files[id])

TheCollection == <<DefaultTenant, "docs">>

\* C1: a build_or_update call on a collection with a persisted version v
\* persists v + 1 when it changed the indexed chunks and v when it did not.
C1_VersionFollowsIndex ==
  [][\A id \in Ids :
       (BuildReturned(id) /\ VersionOf(disk[id]) > 0)
       => VersionOf(disk'[id]) =
            IF disk'[id].index # disk[id].index
            THEN VersionOf(disk[id]) + 1
            ELSE VersionOf(disk[id])]_vars

\* C2: a build_or_update call, incremental or not, never lowers the persisted
\* version of a collection (a record that does not parse carries no version).
C2_VersionNeverDecreases ==
  [][\A id \in Ids :
       (BuildReturned(id) /\ VersionOf(disk[id]) > 0)
       => VersionOf(disk'[id]) >= VersionOf(disk[id])]_vars

\* C3: the first build of an identity without a metadata record, through create
\* or through build_or_update, persists version 1.
C3_FirstBuildIsVersionOne ==
  [][\A id \in Ids :
       ((BuildReturned(id) \/ CreateReturned(id)) /\ disk[id].meta.kind = "nofile")
       => VersionOf(disk'[id]) = 1]_vars

\* C4: build_or_update(incremental=False) on an existing collection of version
\* v leaves exactly the supplied chunks in the index and persists v + 1.
C4_ForcedRebuildBumpsVersion ==
  [][\A id \in Ids :
       (/\ BuildReturned(id)
        /\ ~last'.incremental
        /\ disk[id].exists
        /\ VersionOf(disk[id]) > 0)
       => /\ \A a \in BuildArgs :
               BuildOrUpdate(id[1], id[2], a[1], FALSE, a[2], a[3], a[4])
               => disk'[id].index = SetToBag(a[1])
          /\ VersionOf(disk'[id]) = VersionOf(disk[id]) + 1]_vars

\* C5: an incremental build_or_update over a directory whose content is the one
\* the collection was built from returns without asking the backend to embed,
\* appends nothing to the index and leaves the persisted version as it was.
C5_IncrementalNoOp ==
  [][\A id \in Ids :
       (/\ CallStep("build_or_update", id)
        /\ last'.incremental
        /\ BuiltFromDirectory(id))
       => /\ last'.ret = "Chroma"
          /\ ~last'.embedded
          /\ disk'[id].index = disk[id].index
          /\ VersionOf(disk'[id]) = VersionOf(disk[id])]_vars

\* C5 witness: an incremental call has returned without embedding on a
\* collection built over a.txt and b.txt, which holds their chunks and still
\* has version 2.
C5_Witness ==
  /\ last.op = "build_or_update" /\ last.incremental /\ last.ret = "Chroma"
  /\ ~last.embedded
  /\ BuiltFromDirectory(TheCollection)
  /\ DOMAIN FingerprintsOf(disk[TheCollection]) = {"a.txt", "b.txt"}
  /\ disk[TheCollection].index = SetToBag({<<"a.txt", 1>>, <<"b.txt", 1>>})
  /\ VersionOf(disk[TheCollection]) = 2

\* the collection was built over the files A and B, which are unchanged, and
\* the directory now holds the new file C beside them
BuiltOverPlusNew(id, A, B, C) ==
  /\ A # B /\ A # C /\ B # C
  /\ files[id][C] # 0
  /\ C \notin DOMAIN disk[id].meta.dict
  /\ disk[id].exists
  /\ disk[id].sqlite
  /\ disk[id].meta.kind = "json"
  /\ VersionOf(disk[id]) > 0
  /\ DOMAIN FingerprintsOf(disk[id]) = {A, B}
  /\ DOMAIN compute_dir_checksums(files[id]) = {A, B, C}
  /\ \A p \in {A, B} :
       FingerprintsOf(disk[id])[p] = compute_dir_checksums(files[id])[p]

\* C6: on a collection built over {A, B} at version v, an incremental
\* build_or_update after the file C was added appends exactly the supplied
\* chunks of C, persists v + 1 and stores the fingerprints of exactly {A, B, C}.
C6_IncrementalAdd ==
  [][\A id \in Ids :
       (BuildReturned(id) /\ last'.incremental)
       => \A A \in Paths, B \in Paths, C \in Paths :
            BuiltOverPlusNew(id, A, B, C)
            => /\ \A a \in BuildArgs :
                    BuildOrUpdate(id[1], id[2], a[1], TRUE, a[2], a[3], a[4])
                    => disk'[id].index =
                         disk[id].index
                           (+) SetToBag({d \in a[1] : Source(d) = C})
               /\ VersionOf(disk'[id]) = VersionOf(disk[id]) + 1
               /\ DOMAIN FingerprintsOf(disk'[id]) = {A, B, C}
               /\ FingerprintsOf(disk'[id]) = compute_dir_checksums(files[id])]_vars

\* C6 witness: an incremental call has returned after embedding; the index
\* holds one chunk of each of the three files, the version is 3 and the three
\* fingerprints are stored.
C6_Witness ==
  /\ last.op = "build_or_update" /\ last.incremental /\ last.ret = "Chroma"
  /\ last.embedded
  /\ BuiltFromDirectory(TheCollection)
  /\ DOMAIN FingerprintsOf(disk[TheCollection]) = {"a.txt", "b.txt", "c.txt"}
  /\ disk[TheCollection].index =
       SetToBag({<<"a.txt", 1>>, <<"b.txt", 1>>, <<"c.txt", 1>>})
  /\ VersionOf(disk[TheCollection]) = 3

\* C7: a build_or_update call on a collection whose record carries created_at
\* persists the same created_at; without one it persists the current time.
C7_CreatedAtPreserved ==
  [][\A id \in Ids :
       BuildReturned(id)
       => CreatedAtOf(disk'[id]) =
            IF "created_at" \in DOMAIN _load_meta(disk[id])
            THEN CreatedAtOf(disk[id])
            ELSE IsoFormat(now)]_vars

\* C8: after a build_or_update call that returned, the fingerprint entries of
\* the persisted record are exactly the fingerprints of the files the
\* directory holds: none is missing and none of a removed file is left.
C8_FingerprintsAreCurrent ==
  [][\A id \in Ids :
       BuildReturned(id)
       => FingerprintsOf(disk'[id]) = compute_dir_checksums(files[id])]_vars

\* C8 witness: an incremental call has returned on a collection whose index
\* holds a chunk of b.txt, a file since removed from the directory: the record
\* stores the fingerprint of a.txt alone.
C8_Witness ==
  /\ last.op = "build_or_update" /\ last.incremental /\ last.ret = "Chroma"
  /\ BuiltFromDirectory(TheCollection)
  /\ files[TheCollection]["b.txt"] = 0
  /\ DOMAIN FingerprintsOf(disk[TheCollection]) = {"a.txt"}
  /\ disk[TheCollection].index = SetToBag({<<"a.txt", 1>>, <<"b.txt", 1>>})

\* the step is a call made for the tenant
CallOf(t) ==
  /\ files' = files
  /\ now' = now
  /\ last'.tenant = t
  /\ last'.op \in {"create", "build_or_update", "load", "stats", "list", "delete"}

\* the storage root with the subtrees of every other tenant taken away
OwnStorage(t) == [id \in Ids |-> IF id[1] = t THEN disk[id] ELSE NoDir]

\* C9: a call made for a tenant leaves the storage of every collection of every
\* other tenant as it was, and what a read returns is what it would return if
\* the other tenants had no storage.
C9_TenantIsolation ==
  [][\A t \in Tenants :
       CallOf(t)
       => /\ \A id \in Ids : id[1] # t => disk'[id] = disk[id]
          /\ last'.op = "list" => last'.listed = list_collections(OwnStorage(t), t)
          /\ last'.op \in {"load", "stats"}
             => last'.count = count(OwnStorage(t)[<<t, last'.name>>])]_vars

\* C10: after delete for (t, n), no storage is left for (t, n) and a load of
\* (t, n) finds nothing; delete returns True exactly when storage for (t, n)
\* existed before the call.
C10_DeleteRemovesIdentity ==
  [][\A t \in Tenants, n \in Names :
       CallStep("delete", <<t, n>>)
       => /\ disk'[<<t, n>>] = NoDir
          /\ ~load_collection_found(disk'[<<t, n>>])
          /\ (last'.ret = "True") <=> disk[<<t, n>>].exists]_vars

\* the step before was a delete for the same identity
DeletedJustBefore(id) ==
  /\ last.op = "delete"
  /\ last.tenant = id[1]
  /\ last.name = id[2]

\* C11: a delete for an identity that has storage returns True, and a delete
\* that follows a delete for the same identity, with no call in between,
\* returns False and changes no persisted state.
C11_DeleteTwice ==
  [][\A id \in Ids :
       CallStep("delete", id)
       => /\ disk[id].exists => last'.ret = "True"
          /\ DeletedJustBefore(id) => (last'.ret = "False" /\ disk' = disk)]_vars

\* the step is a purge sweep
PurgeStep ==
  /\ files' = files
  /\ now' = now
  /\ last'.op = "purge"

\* the sweep of the step lists the collection as deleted
ListedDeleted(id) == \E i \in DOMAIN last'.deleted : last'.deleted[i] = id

\* the record of the directory carries created_at and retention_days, and at
\* the instant t more than retention_days whole days have passed since
OlderThanRetention(dir, t) ==
  /\ dir.meta.kind = "json"
  /\ {"created_at", "retention_days"} \subseteq DOMAIN dir.meta.dict
  /\ t - dir.meta.dict["created_at"][2]
       >= TicksPerDay * (dir.meta.dict["retention_days"][2] + 1)

\* the record of the directory is absent, does not parse or has no created_at
NoCreationDate(dir) ==
  \/ dir.meta.kind \in {"nofile", "corrupt"}
  \/ dir.meta.kind = "json" /\ "created_at" \notin DOMAIN dir.meta.dict

\* C12: a purge sweep that returns has deleted the storage of a collection
\* exactly when its record carries created_at and its age in whole days is
\* greater than its retention_days (and rmtree did not fail on it); it lists
\* exactly the collections it deleted and leaves the others untouched.
C12_PurgeExactlyExpired ==
  [][(PurgeStep /\ last'.ret = "list")
     => \A id \in Ids :
          disk[id].exists
          => /\ (disk'[id] = NoDir)
                <=> (OlderThanRetention(disk[id], last'.at) /\ id \notin last'.failed)
             /\ ListedDeleted(id) <=> (disk'[id] = NoDir)
             /\ ~OlderThanRetention(disk[id], last'.at) => disk'[id] = disk[id]]_vars

\* C12 witness: a sweep asked for the instant 62 has deleted the collection
\* created at 0 (31 days old) and kept the one created at 1 (30 days old).
C12_Witness ==
  /\ last.op = "purge" /\ last.ret = "list" /\ last.at = 62
  /\ last.deleted = << <<"public", "docs">> >>
  /\ disk[<<"public", "docs">>] = NoDir
  /\ disk[<<"acme", "docs">>].exists
  /\ CreatedAtOf(disk[<<"acme", "docs">>]) = IsoFormat(1)
  /\ Get(_load_meta(disk[<<"acme", "docs">>]), "retention_days") = JInt(30)

\* C13: no purge sweep deletes or lists a collection whose record is absent,
\* does not parse or has no created_at, whatever the instant asked for.
C13_PurgeSkipsUndated ==
  [][PurgeStep
     => \A id \in Ids :
          (disk[id].exists /\ NoCreationDate(disk[id]))
          => (disk'[id] = disk[id] /\ ~ListedDeleted(id))]_vars

\* C13 witness: a sweep has deleted the collection of one tenant and left the
\* collection of the other, whose record has no created_at, in place.
C13_Witness ==
  /\ last.op = "purge" /\ last.ret = "list" /\ last.at = 63
  /\ last.deleted = << <<"acme", "docs">> >>
  /\ disk[<<"public", "docs">>].exists
  /\ disk[<<"public", "docs">>].meta.kind = "json"
  /\ "created_at" \notin DOMAIN disk[<<"public", "docs">>].meta.dict

\* C14: a purge sweep returns whatever fails on one collection, and every
\* expired collection it did not fail on is deleted and listed.
C14_PurgeSweepsOn ==
  [][PurgeStep
     => /\ last'.ret = "list"
        /\ \A id \in Ids :
             (/\ disk[id].exists
              /\ OlderThanRetention(disk[id], last'.at)
              /\ id \notin last'.failed)
             => (disk'[id] = NoDir /\ ListedDeleted(id))]_vars

\* C15: an incremental build_or_update that returns on a collection whose
\* storage exists and whose record does not parse leaves exactly the supplied
\* chunks (cut from the files of the directory) in the index, as a full
\* rebuild does.
C15_CorruptRecordForcesRebuild ==
  [][\A id \in Ids :
       (/\ BuildReturned(id)
        /\ last'.incremental
        /\ disk[id].exists
        /\ disk[id].meta.kind = "corrupt")
       => \A a \in BuildArgs :
            (/\ a[1] \subseteq load_and_split(files[id])
             /\ BuildOrUpdate(id[1], id[2], a[1], TRUE, a[2], a[3], a[4]))
            => disk'[id].index = SetToBag(a[1])]_vars

\* the step is a create or build_or_update call on the collection that raised
BuildRaised(id) ==
  /\ \/ CallStep("create", id)
     \/ CallStep("build_or_update", id)
  /\ last'.ret = "raised"

\* C16: a create or build_or_update call that failed has written no record:
\* the record of the collection is the one it was before, or there is none
\* (the call removed the storage before it built the index).
C16_NoRecordAfterFailure ==
  [][\A id \in Ids :
       BuildRaised(id)
       => \/ disk'[id].meta = disk[id].meta
          \/ disk'[id].meta = NoFile]_vars

\* C16 witness: a forced build_or_update failed in the index backend on a
\* collection that had a record: the directory is left without index or record.
C16_Witness ==
  /\ last.op = "build_or_update" /\ ~last.incremental /\ last.ret = "raised"
  /\ last.embedded
  /\ disk[TheCollection] = EmptyDirectory
  /\ files[TheCollection]["a.txt"] # 0

\* the step is a request that creates, rebuilds or deletes the named collection
ApiMutation(name) ==
  /\ files' = files
  /\ now' = now
  /\ last'.name = name
  /\ last'.op \in {"create_api", "build_or_update", "delete"}

\* C17: a create-collection or delete-collection request whose collection name
\* fails the naming rules is not carried out: it creates, changes and removes
\* no storage.
C17_BadNameRejected ==
  [][\A n \in AllNames :
       (ApiMutation(n) /\ ~validate_collection_name(n))
       => (last'.ret \notin {"Chroma", "True"} /\ disk' = disk)]_vars

\* C19: a build_or_update call over a directory with a file that cannot be
\* read raises and leaves the index and the record of the collection, and the
\* rest of the storage root, as they were.
C19_UnreadableFileAborts ==
  [][\A id \in Ids :
       (/\ CallStep("build_or_update", id)
        /\ \E p \in Paths : files[id][p] = NoAccess)
       => (last'.ret = "raised" /\ disk' = disk)]_vars

\* C19 witness: a build_or_update call has raised over a directory whose file
\* cannot be read, on a collection that holds an index and a record of
\* version 2 with the fingerprint of the file as it was.
C19_Witness ==
  /\ last.op = "build_or_update" /\ last.ret = "raised"
  /\ last.tenant = "acme" /\ last.name = "docs"
  /\ files[<<"acme", "docs">>]["a.txt"] = NoAccess
  /\ disk[<<"acme", "docs">>].index = SetToBag({<<"a.txt", 1>>})
  /\ VersionOf(disk[<<"acme", "docs">>]) = 2
  /\ FingerprintsOf(disk[<<"acme", "docs">>]) = [p \in {"a.txt"} |-> file_sha256(1)]

\* C18: a load of an identity for which no index is persisted returns None,
\* also when the storage directory exists and holds no index.
C18_LoadAbsentWithoutIndex ==
  [][\A id \in Ids :
       (CallStep("load", id) /\ ~disk[id].sqlite)
       => last'.ret = "None"]_vars

\* the collection was built over the present files of the directory and over
\* at least one file that has been removed since; nothing else has changed
BuiltBeforeRemoval(id) ==
  /\ disk[id].exists
  /\ disk[id].sqlite
  /\ disk[id].meta.kind = "json"
  /\ DOMAIN compute_dir_checksums(files[id]) \subseteq DOMAIN FingerprintsOf(disk[id])
  /\ DOMAIN compute_dir_checksums(files[id]) # DOMAIN FingerprintsOf(disk[id])
  /\ \A p \in DOMAIN compute_dir_checksums(files[id]) :
       FingerprintsOf(disk[id])[p] = compute_dir_checksums(files[id])[p]

\* C20: an incremental build_or_update after a file was removed from the
\* directory, nothing else having changed, returns without embedding, leaves
\* the index as it was, the chunks of the removed file included, and leaves
\* the persisted version as it was.
C20_RemovedFileStaysIndexed ==
  [][\A id \in Ids :
       (/\ CallStep("build_or_update", id)
        /\ last'.incremental
        /\ BuiltBeforeRemoval(id))
       => /\ last'.ret = "Chroma"
          /\ ~last'.embedded
          /\ disk'[id].index = disk[id].index
          /\ VersionOf(disk'[id]) = VersionOf(disk[id])]_vars

\* C20 witness: an incremental call has returned without embedding over a
\* directory that holds a.txt alone; the index still holds the chunk of the
\* removed b.txt and the version is still 2.
C20_Witness ==
  /\ last.op = "build_or_update" /\ last.incremental /\ last.ret = "Chroma"
  /\ ~last.embedded
  /\ files[TheCollection] = [p \in AllPaths |-> IF p = "a.txt" THEN 1 ELSE 0]
  /\ disk[TheCollection].index = SetToBag({<<"a.txt", 1>>, <<"b.txt", 1>>})
  /\ VersionOf(disk[TheCollection]) = 2
  /\ DOMAIN FingerprintsOf(disk[TheCollection]) = {"a.txt"}

\* the files of the directory whose digest is not the one the record stores
\* for their path: the new files and the modified ones
ChangedSincePersisted(id) ==
  {p \in DOMAIN compute_dir_checksums(files[id]) :
     Get(FingerprintsOf(disk[id]), p) # compute_dir_checksums(files[id])[p]}

\* C21: an incremental build_or_update that returns on a collection with a
\* record appends exactly the supplied chunks of the files whose present digest
\* differs from the fingerprint the record stores, and raises the version
\* exactly when there is such a file: what the directory held between the
\* persisted snapshot and the call plays no part.
C21_ChangedFromPersisted ==
  [][\A id \in Ids :
       (/\ BuildReturned(id)
        /\ last'.incremental
        /\ disk[id].exists
        /\ disk[id].meta.kind = "json")
       => /\ \A docs \in SUBSET load_and_split(files[id]) :
               \A r \in RetentionChoices, o \in OwnerChoices, e \in BOOLEAN :
                 BuildOrUpdate(id[1], id[2], docs, TRUE, r, o, e)
                 => disk'[id].index =
                      disk[id].index
                        (+) SetToBag({d \in docs :
                                        Source(d) \in ChangedSincePersisted(id)})
          /\ VersionOf(disk'[id]) =
               IF ChangedSincePersisted(id) # {}
               THEN VersionOf(disk[id]) + 1
               ELSE VersionOf(disk[id])]_vars

\* C21 witness: a.txt was indexed with content 1, modified to content 2 and
\* updated, reverted to content 1 and updated again: both updates counted it
\* as changed, so the index holds the chunk of content 1 twice and the chunk
\* of content 2 once, and the version is 3.
C21_Witness ==
  /\ last.op = "build_or_update" /\ last.incremental /\ last.ret = "Chroma"
  /\ last.embedded
  /\ files[TheCollection]["a.txt"] = 1
  /\ FingerprintsOf(disk[TheCollection]) = [p \in {"a.txt"} |-> file_sha256(1)]
  /\ disk[TheCollection].index =
       SetToBag({<<"a.txt", 1>>, <<"a.txt", 2>>}) (+) SetToBag({<<"a.txt", 1>>})
  /\ VersionOf(disk[TheCollection]) = 3

\* the step is the final save of the request in the slot, which returns
SaveStep(s) == calls[s].pc = "built" /\ calls'[s].pc = "idle"

\* C22: the final save of a build_or_update call leaves as the record of the
\* collection exactly the record the call made from what it read at its start,
\* whatever another call has saved since: nothing of the record on disk is
\* kept, and the version is at most one above the version the call read.
C22_LastSaveWins ==
  [][\A s \in Slots :
       SaveStep(s)
       => /\ \E r \in RetentionChoices :
               _load_meta(disk'[calls[s].id]) =
                 meta_to_save(calls[s].previous_meta, calls[s].current_meta,
                              calls[s].id[2], calls[s].id[1], r, None, now)
          /\ VersionOf(disk'[calls[s].id])
               <= previous_version(calls[s].previous_meta) + 1]_vars

\* C22 witness: the calls that ran side by side have returned; the index holds
\* the chunk of the new content of a.txt twice, appended by two calls that
\* each found the file changed, and the version is 3, one above the version 2
\* of the first build.
C22_Witness ==
  /\ \A s \in Slots : calls[s].pc = "idle"
  /\ last.op = "build_or_update" /\ last.incremental /\ last.ret = "Chroma"
  /\ last.embedded
  /\ disk[TheFile].index =
       SetToBag({<<"a.txt", 1>>, <<"a.txt", 2>>}) (+) SetToBag({<<"a.txt", 2>>})
  /\ FingerprintsOf(disk[TheFile]) = [p \in {"a.txt"} |-> file_sha256(2)]
  /\ VersionOf(disk[TheFile]) = 3

\* a request is inside the full rebuild of the collection: create_collection is
\* entered and its record is not yet written
RebuildInFlight(id) ==
  \E s \in Slots :
    /\ calls[s].id = id
    /\ calls[s].pc \in {"rebuild", "removed", "made", "indexed"}

\* the step is a load or a stats call on the collection; the steps of a request
\* in flight move the request, and the writes change the documents directory
ReadStep(id) ==
  /\ CallStep("load", id) \/ CallStep("stats", id)
  /\ calls' = calls

\* C23: a load or stats call that comes while a full rebuild of the same
\* collection is in flight, or right after its delete, returns a result or
\* nothing, raises no error, and leaves the persisted storage as it was.
C23_ReadsLeaveStorage ==
  [][\A id \in Ids :
       (ReadStep(id) /\ (RebuildInFlight(id) \/ DeletedJustBefore(id)))
       => /\ last'.ret \in {"None", "Chroma", "empty", "stats"}
          /\ disk' = disk]_vars

\* the call before was a create of the collection that returned, and the index
\* holds the chunks of the documents directory as it is now
CreatedFromDirectory(id) ==
  /\ last.op = "create" /\ last.ret = "Chroma"
  /\ last.tenant = id[1] /\ last.name = id[2]
  /\ disk[id].exists
  /\ disk[id].index = from_documents(load_and_split(files[id]))

\* C24: an incremental build_or_update that follows a create over the same
\* directory, is given the chunks of that directory and returns, has not
\* embedded, has appended no chunk and has left the version as it was, so
\* that no chunk is in the index twice.
C24_CreateThenIncremental ==
  [][\A id \in Ids :
       (/\ BuildReturned(id)
        /\ last'.incremental
        /\ CreatedFromDirectory(id)
        /\ \E r \in RetentionChoices, o \in OwnerChoices, e \in BOOLEAN :
             BuildOrUpdate(id[1], id[2], load_and_split(files[id]), TRUE, r, o, e))
       => /\ ~last'.embedded
          /\ disk'[id].index = disk[id].index
          /\ VersionOf(disk'[id]) = VersionOf(disk[id])
          /\ \A d \in BagToSet(disk'[id].index) :
               CopiesIn(d, disk'[id].index) = 1]_vars

\* the file is in the record with the digest of a content whose chunk is in the
\* index, and the directory now holds the file with another content
ModifiedSinceIndexed(id, p, old) ==
  /\ disk[id].meta.kind = "json"
  /\ p \in DOMAIN FingerprintsOf(disk[id])
  /\ FingerprintsOf(disk[id])[p] = file_sha256(old)
  /\ BagIn(<<p, old>>, disk[id].index)
  /\ files[id][p] \notin {0, old}

\* C25: a build_or_update that takes the incremental path (incremental, and
\* the storage directory exists) removes no chunk: the index after the call
\* holds every entry it held before; and when it returns after a file was
\* modified and it was given the chunk of the new content, the index holds the
\* chunk of the old content and the chunk of the new one.
C25_IncrementalKeepsChunks ==
  [][\A id \in Ids :
       (/\ CallStep("build_or_update", id)
        /\ last'.incremental
        /\ disk[id].exists)
       => /\ disk[id].index \sqsubseteq disk'[id].index
          /\ last'.ret = "Chroma"
             => \A p \in Paths, old \in Contents :
                  (/\ ModifiedSinceIndexed(id, p, old)
                   /\ \E docs \in SUBSET load_and_split(files[id]) :
                        /\ <<p, files[id][p]>> \in docs
                        /\ \E r \in RetentionChoices, o \in OwnerChoices,
                              e \in BOOLEAN :
                             BuildOrUpdate(id[1], id[2], docs, TRUE, r, o, e))
                  => /\ BagIn(<<p, old>>, disk'[id].index)
                     /\ BagIn(<<p, files[id][p]>>, disk'[id].index)]_vars

\* C25 witness: an incremental call has returned after a.txt, indexed with
\* content 1, was modified to content 2: the index holds the chunk of content
\* 1 and the chunk of content 2, and the record the digest of content 2.
C25_Witness ==
  /\ last.op = "build_or_update" /\ last.incremental /\ last.ret = "Chroma"
  /\ last.embedded
  /\ files[TheCollection]["a.txt"] = 2
  /\ disk[TheCollection].index = SetToBag({<<"a.txt", 1>>, <<"a.txt", 2>>})
  /\ FingerprintsOf(disk[TheCollection]) = [p \in {"a.txt"} |-> file_sha256(2)]
  /\ VersionOf(disk[TheCollection]) = 2


\* C26: an incremental build_or_update that returns on a collection whose
\* fingerprints are those of the directory as it is now embeds nothing and
\* leaves the index, the version, created_at and the fingerprints as they were,
\* but the record now holds the retention_days and the owner of this call,
\* whatever it held before (no owner when the call passes none), and
\* updated_at is the time of the call.
C26_NoOpRewritesRecord ==
  [][\A id \in Ids :
       (/\ BuildReturned(id)
        /\ last'.incremental
        /\ BuiltFromDirectory(id))
       => \A docs \in {load_and_split(files[id]), dir_chunks(files[id])} :
            \A r \in RecordRetentions, o \in RecordOwners, e \in BOOLEAN :
              BuildOrUpdate(id[1], id[2], docs, TRUE, r, o, e)
              => /\ ~last'.embedded
                 /\ disk'[id].index = disk[id].index
                 /\ VersionOf(disk'[id]) = VersionOf(disk[id])
                 /\ CreatedAtOf(disk'[id]) = CreatedAtOf(disk[id])
                 /\ FingerprintsOf(disk'[id]) = FingerprintsOf(disk[id])
                 /\ Get(_load_meta(disk'[id]), "retention_days") = JInt(r)
                 /\ Get(_load_meta(disk'[id]), "owner") = o
                 /\ UpdatedAtOf(disk'[id]) = IsoFormat(now)]_vars

\* C26 witness: the collection was built at time 0 and an incremental call at
\* time 1 over the unchanged directory returned without embedding: the record
\* still says version 2 and created at 0, and holds the retention of 7 days, no
\* owner and the update time 1 of that call.
C26_Witness ==
  /\ last.op = "build_or_update" /\ last.incremental /\ last.ret = "Chroma"
  /\ ~last.embedded
  /\ files[TheCollection]["a.txt"] = 1
  /\ files[TheCollection]["owner"] = 0
  /\ disk[TheCollection].index = SetToBag({<<"a.txt", 1>>})
  /\ VersionOf(disk[TheCollection]) = 2
  /\ CreatedAtOf(disk[TheCollection]) = IsoFormat(0)
  /\ UpdatedAtOf(disk[TheCollection]) = IsoFormat(1)
  /\ Get(_load_meta(disk[TheCollection]), "retention_days") = JInt(7)
  /\ Get(_load_meta(disk[TheCollection]), "owner") = None


\* the directory holds a file whose relative path is the reserved key p, and
\* the collection has its directory and a record
ReservedFilePresent(id, p) ==
  /\ files[id][p] \notin {0, NoAccess}
  /\ disk[id].exists
  /\ disk[id].meta.kind = "json"

\* what an incremental call that returns does about the file named p: the
\* record holds the owner of the call under p, every supplied chunk of p is in
\* the index once more, and the version is one higher
CountedAsChanged(id, p, docs, o) ==
  /\ Get(_load_meta(disk'[id]), p) = o
  /\ \A d \in docs :
       Source(d) = p
       => CopiesIn(d, disk'[id].index) = CopiesIn(d, disk[id].index) + 1
  /\ VersionOf(disk'[id]) = VersionOf(disk[id]) + 1

\* C27 as stated: while the directory holds a file named like a reserved key,
\* every incremental build_or_update that returns stores the reserved value
\* under that name, appends the supplied chunks of the file again and raises
\* the version, so that the no-op path is never taken.
C27_ReservedFileAlwaysChanged ==
  [][\A id \in Ids : \A p \in ReservedPaths :
       (/\ BuildReturned(id)
        /\ last'.incremental
        /\ ReservedFilePresent(id, p))
       => \A docs \in {load_and_split(files[id]), dir_chunks(files[id])} :
            \A r \in RecordRetentions, o \in RecordOwners, e \in BOOLEAN :
              BuildOrUpdate(id[1], id[2], docs, TRUE, r, o, e)
              => CountedAsChanged(id, p, docs, o)]_vars

\* C27 amended: the same, for the calls that find under the reserved key a
\* value other than the digest of the file (a number, a time, no owner, or a
\* string that is not that digest); a call that finds there a string equal to
\* the digest of the file does not count the file as changed.
C27_ReservedFileChangedUnlessEqual ==
  [][\A id \in Ids : \A p \in ReservedPaths :
       (/\ BuildReturned(id)
        /\ last'.incremental
        /\ ReservedFilePresent(id, p))
       => \A docs \in {load_and_split(files[id]), dir_chunks(files[id])} :
            \A r \in RecordRetentions, o \in RecordOwners, e \in BOOLEAN :
              BuildOrUpdate(id[1], id[2], docs, TRUE, r, o, e)
              => /\ Get(_load_meta(disk'[id]), p) = o
                 /\ IF Get(_load_meta(disk[id]), p) # file_sha256(files[id][p])
                    THEN CountedAsChanged(id, p, docs, o)
                    ELSE p \notin changed_files(_load_meta(disk[id]),
                                                compute_dir_checksums(files[id]))]_vars

\* C27 witness: the directory holds only the file named owner; the collection
\* was built from it and then updated incrementally with no owner, the file
\* unchanged throughout: the update embedded, the chunk of the file is in the
\* index a second time and the version went from 2 to 3.
C27_Witness ==
  /\ last.op = "build_or_update" /\ last.incremental /\ last.ret = "Chroma"
  /\ last.embedded
  /\ files[TheCollection]["owner"] = 1
  /\ files[TheCollection]["a.txt"] = 0
  /\ CopiesIn(<<"owner", 1>>, disk[TheCollection].index) = 2
  /\ VersionOf(disk[TheCollection]) = 3
  /\ Get(_load_meta(disk[TheCollection]), "owner") = None


\* the index of the directory holds a chunk of the file p cut from a content
\* whose digest is the fingerprint the record of the directory stores for p
IndexedAsFingerprinted(dir, p) ==
  \E c \in InFlightContents :
    /\ FingerprintsOf(dir)[p] = file_sha256(c)
    /\ BagIn(<<p, c>>, dir.index)

\* C28: when a build_or_update request that no delete has crossed saves its
\* record and returns, the index holds for every path of the persisted
\* fingerprints a chunk cut from the content with that fingerprint, also when
\* the file was written between load_and_split and compute_dir_checksums.
C28_ChunksMatchFingerprints ==
  [][\A s \in Slots :
       (/\ SaveStep(s)
        /\ ~calls[s].stale
        /\ last'.ret = "Chroma")
       => \A p \in DOMAIN FingerprintsOf(disk'[calls[s].id]) :
            IndexedAsFingerprinted(disk'[calls[s].id], p)]_vars


\* the call before was an update of the retention of the collection that was
\* answered with 200, and the collection has its storage and a dated record
RetentionJustSet(id) ==
  /\ last.op = "update_retention" /\ last.ret = "200"
  /\ last.tenant = id[1] /\ last.name = id[2]
  /\ disk[id].exists
  /\ disk[id].meta.kind = "json"
  /\ "created_at" \in DOMAIN disk[id].meta.dict

\* C29: the purge sweep that follows an update of a collection's retention to
\* r, returns and does not fail on the collection, deletes the collection
\* exactly when its age in whole days at the instant of the sweep is greater
\* than r.
C29_PurgeUsesUpdatedRetention ==
  [][\A id \in Ids :
       (/\ PurgeStep
        /\ last'.ret = "list"
        /\ RetentionJustSet(id)
        /\ id \notin last'.failed)
       => ((disk'[id] = NoDir)
           <=> age_days(last'.at, CreatedAtOf(disk[id])) > last.retention)]_vars

============================================================================
